---------------------------- MODULE Spec2Model ----------------------------
(***************************************************************************)
(* A model of the AI orchestration core of promptforge2:                   *)
(*   - cleanJsonResponse / discoverJsonPrompts  (services/geminiService.ts)*)
(*   - StockCard, the polling market feed       (unnamed/part_001)         *)
(*   - ChatWidget, the streaming conversation   (unnamed/part_002)         *)
(*   - ResultView's schema audit and derivation (components/ResultView.tsx)*)
(*                                                                         *)
(* Texts are sequences of units.  A unit is one character ("{", "`", " ",  *)
(* a double quote ...) or one word: a run of letters or digits that no     *)
(* function of the program splits ("json", "history", "10").  JavaScript   *)
(* values are records tagged by their type in field t.                     *)
(***************************************************************************)
EXTENDS Integers, Sequences, FiniteSets, Bags, TLC

VARIABLES
    sanText,      \* cleanJsonResponse: the argument
    sanOut,       \* cleanJsonResponse: the value returned (or Thrown)
    sanPc         \* "call" before the call, "done" after it

sanVars == <<sanText, sanOut, sanPc>>

VARIABLES
    synPc,        \* discoverJsonPrompts: "research", "synthesis", "returned", "threw"
    synQuery,     \* its argument
    synResearch,  \* the research call's response, once it has arrived
    synSources,   \* const sources, computed from the research response
    synCalls,     \* the remote calls issued so far, in order
    synResult,    \* the SearchResult returned
    synError,     \* the message of the Error thrown
    synText       \* formatResponse.text, once the synthesis response has arrived

synVars == <<synPc, synQuery, synResearch, synSources, synCalls, synResult, synError, synText>>

VARIABLES
    pollMounted,    \* StockCard is mounted
    activeSymbol,   \* useState: the subject
    pollData,       \* useState data: Null or the snapshot stored
    isLoading,      \* useState
    isRefreshing,   \* useState
    pollError,      \* useState error: Null or {message, hint}
    refreshInterval,\* useRef: the id of the interval last armed (0: null)
    pollTimers,     \* the intervals armed in the window, each with the subject
                    \* its callback's fetchMarketData closes over
    pollInFlight,   \* the fetches awaiting their response: a bag of {sym, initial}
    pollIssued,     \* how many fetches were issued
    pollSwitches,   \* how many times the subject was changed
    pollLast        \* the fetch whose response the last step handled (history)

pollVars == <<pollMounted, activeSymbol, pollData, isLoading, isRefreshing, pollError,
              refreshInterval, pollTimers, pollInFlight, pollIssued, pollSwitches, pollLast>>

VARIABLES
    chatContext,    \* ChatWidget's currentContext prop: Null or a SearchResult
    messages,       \* useState: the turns
    isTyping,       \* useState
    chatInstance,   \* useRef: Null or the chat session
    chatSends,      \* the handleSend calls that have not finished
    chatCreated,    \* how many sessions ai.chats.create has made
    chatSent,       \* how many sends were started
    chatChanges,    \* how many times the context prop changed
    chatDone        \* the sends finished since the title effect last ran (history)

chatVars == <<chatContext, messages, isTyping, chatInstance, chatSends, chatCreated,
              chatSent, chatChanges, chatDone>>

VARIABLES
    rvResult,            \* ResultView's result prop
    derivedSchema,       \* useState
    validationReport,    \* useState
    isValidatingSchema,  \* useState
    isDerivingSchema,    \* useState
    schemaError,         \* useState
    activeTab,           \* useState
    rvValidations,       \* the validation calls awaiting their response
    rvDerivations,       \* the derivation calls awaiting their response
    rvLastDerived,       \* the text of the last derivation that succeeded (history)
    rvLastValidation,    \* how the last validation call ended (history)
    rvLastDerivation     \* how the last derivation call ended (history)

rvVars == <<rvResult, derivedSchema, validationReport, isValidatingSchema, isDerivingSchema,
            schemaError, activeTab, rvValidations, rvDerivations, rvLastDerived,
            rvLastValidation, rvLastDerivation>>

VARIABLES
    appIsSearching,  \* App's state.isSearching
    appQuery,        \* state.query
    appResults,      \* state.results: Null or a SearchResult
    appError,        \* state.error: Null or a message
    searchHistory,   \* state.searchHistory
    favorites,       \* state.favorites
    appSearches,     \* the handleSearch calls awaiting discoverJsonPrompts
    appIssued,       \* how many searches were started
    appSaved,        \* how many favorites were created (the source of their ids)
    appLast          \* how the search the last step handled ended (history)

appVars == <<appIsSearching, appQuery, appResults, appError, searchHistory, favorites,
             appSearches, appIssued, appSaved, appLast>>

vars == <<sanVars, synVars, pollVars, chatVars, rvVars, appVars>>

\* What each component leaves alone
notSanVars == <<synVars, pollVars, chatVars, rvVars, appVars>>
notSynVars == <<sanVars, pollVars, chatVars, rvVars, appVars>>
notPollVars == <<sanVars, synVars, chatVars, rvVars, appVars>>
notChatVars == <<sanVars, synVars, pollVars, rvVars, appVars>>
notRvVars == <<sanVars, synVars, pollVars, chatVars, appVars>>
notAppVars == <<sanVars, synVars, pollVars, chatVars, rvVars>>

-----------------------------------------------------------------------------
(* JavaScript values *)

Undefined == [t |-> "undefined"]
Null == [t |-> "null"]
Thrown == [t |-> "throw"]
Str(s) == [t |-> "str", s |-> s]
Num(n) == [t |-> "num", n |-> n]
Bool(b) == [t |-> "bool", b |-> b]
Arr(a) == [t |-> "arr", a |-> a]
Obj(p) == [t |-> "obj", p |-> p]

\* ToBoolean: undefined, null, "", 0 and false are falsy
Falsy(v) ==
    \/ v.t \in {"undefined", "null"}
    \/ v.t = "str" /\ v.s = <<>>
    \/ v.t = "num" /\ v.n = 0
    \/ v.t = "bool" /\ ~v.b

SetMin(S) == CHOOSE x \in S : \A y \in S : x <= y
SetMax(S) == CHOOSE x \in S : \A y \in S : x >= y

-----------------------------------------------------------------------------
(* String primitives, on sequences of units *)

BackTick == "bq"   \* the backquote character
IsWhite(u) == u \in {" ", "\n"}

\* String.prototype.trim
Trim(s) ==
    LET keep == {i \in 1..Len(s) : ~IsWhite(s[i])}
    IN  IF keep = {} THEN <<>> ELSE SubSeq(s, SetMin(keep), SetMax(keep))

\* String.prototype.indexOf / lastIndexOf for a one-unit needle: 0-based, -1 if absent
IndexOf(s, u) ==
    LET at == {i \in 1..Len(s) : s[i] = u}
    IN  IF at = {} THEN -1 ELSE SetMin(at) - 1

LastIndexOf(s, u) ==
    LET at == {i \in 1..Len(s) : s[i] = u}
    IN  IF at = {} THEN -1 ELSE SetMax(at) - 1

\* String.prototype.substring(from, to): units from..to-1, 0-based
Substring(s, from, to) == SubSeq(s, from + 1, to)

\* Length of the match of /```json\n?|```/ that starts at unit i of s (0: none).
\* The first alternative is tried first, and \n? is greedy.
FenceLenAt(s, i) ==
    IF i + 2 <= Len(s) /\ s[i] = BackTick /\ s[i+1] = BackTick /\ s[i+2] = BackTick
    THEN IF i + 3 <= Len(s) /\ s[i+3] = "json"
         THEN IF i + 4 <= Len(s) /\ s[i+4] = "\n" THEN 5 ELSE 4
         ELSE 3
    ELSE 0

\* text.replace(/```json\n?|```/g, ''): leftmost matches, left to right, one pass
RECURSIVE StripFrom(_, _)
StripFrom(s, i) ==
    IF i > Len(s) THEN <<>>
    ELSE IF FenceLenAt(s, i) > 0 THEN StripFrom(s, i + FenceLenAt(s, i))
    ELSE <<s[i]>> \o StripFrom(s, i + 1)

StripFences(s) == StripFrom(s, 1)

-----------------------------------------------------------------------------
(* cleanJsonResponse *)

EmptyObjectText == <<"{", "}">>

\* cleanJsonResponse without its guard on a falsy argument
CleanNoGuard(text) ==
    IF text.t # "str" THEN Thrown
    ELSE LET cleaned == Trim(StripFences(text.s))
             startBrace == IndexOf(cleaned, "{")
             endBrace == LastIndexOf(cleaned, "}")
         IN  IF startBrace # -1 /\ endBrace # -1 /\ endBrace > startBrace
             THEN Str(Substring(cleaned, startBrace, endBrace + 1))
             ELSE Str(cleaned)

\* cleanJsonResponse without its .trim()
CleanNoTrim(text) ==
    IF Falsy(text) THEN Str(EmptyObjectText)
    ELSE IF text.t # "str" THEN Thrown
    ELSE LET cleaned == StripFences(text.s)
             startBrace == IndexOf(cleaned, "{")
             endBrace == LastIndexOf(cleaned, "}")
         IN  IF startBrace # -1 /\ endBrace # -1 /\ endBrace > startBrace
             THEN Str(Substring(cleaned, startBrace, endBrace + 1))
             ELSE Str(cleaned)

\* cleanJsonResponse with substring(startBrace, endBrace): the closing brace lost
CleanDropsLastBrace(text) ==
    IF Falsy(text) THEN Str(EmptyObjectText)
    ELSE IF text.t # "str" THEN Thrown
    ELSE LET cleaned == Trim(StripFences(text.s))
             startBrace == IndexOf(cleaned, "{")
             endBrace == LastIndexOf(cleaned, "}")
         IN  IF startBrace # -1 /\ endBrace # -1 /\ endBrace > startBrace
             THEN Str(Substring(cleaned, startBrace, endBrace))
             ELSE Str(cleaned)

\* const cleanJsonResponse = (text: string): string => ...
\* (.replace on a value that is not a string throws a TypeError)
cleanJsonResponse(text) ==
    IF Falsy(text) THEN Str(EmptyObjectText)
    ELSE IF text.t # "str" THEN Thrown
    ELSE LET cleaned == Trim(StripFences(text.s))
             startBrace == IndexOf(cleaned, "{")
             endBrace == LastIndexOf(cleaned, "}")
         IN  IF startBrace # -1 /\ endBrace # -1 /\ endBrace > startBrace
             THEN Str(Substring(cleaned, startBrace, endBrace + 1))
             ELSE Str(cleaned)

-----------------------------------------------------------------------------
(* JSON.parse, on sequences of units.  A string literal is a double quote, *)
(* units other than a double quote or a line break, and a double quote; a  *)
(* number literal is one of the words of NumberWords.                      *)

Quote == "\""
NumberWords == {"0", "10", "20"}
NumberValue(w) == IF w = "0" THEN 0 ELSE IF w = "10" THEN 10 ELSE 20

\* What JSON.parse yields: a value, or the SyntaxError it throws
ParseOk(v, next) == [ok |-> TRUE, v |-> v, next |-> next]
ParseFail == [ok |-> FALSE]

EmptyMap == [k \in {} |-> Undefined]
MapPut(m, key, v) == [k \in (DOMAIN m) \cup {key} |-> IF k = key THEN v ELSE m[k]]

\* obj[key]: undefined when the property is absent
Get(obj, key) ==
    IF obj.t = "obj" /\ key \in DOMAIN obj.p THEN obj.p[key] ELSE Undefined

RECURSIVE SkipWhite(_, _)
SkipWhite(s, i) == IF i <= Len(s) /\ IsWhite(s[i]) THEN SkipWhite(s, i + 1) ELSE i

\* The index of the quote that closes the string literal opened before unit i (0: none)
RECURSIVE CloseQuote(_, _)
CloseQuote(s, i) ==
    IF i > Len(s) \/ s[i] = "\n" THEN 0
    ELSE IF s[i] = Quote THEN i
    ELSE CloseQuote(s, i + 1)

RECURSIVE ParseValue(_, _)
RECURSIVE ParseMembers(_, _, _)
RECURSIVE ParseElements(_, _, _)

\* members after "{" or ",": "key" : value, then "," or "}"
ParseMembers(s, i, acc) ==
    LET k == SkipWhite(s, i)
    IN  IF k > Len(s) \/ s[k] # Quote \/ CloseQuote(s, k + 1) = 0 THEN ParseFail
        ELSE LET c == CloseQuote(s, k + 1)
                 key == SubSeq(s, k + 1, c - 1)
                 colon == SkipWhite(s, c + 1)
             IN  IF colon > Len(s) \/ s[colon] # ":" THEN ParseFail
                 ELSE LET val == ParseValue(s, colon + 1)
                      IN  IF ~val.ok THEN ParseFail
                          ELSE LET e == SkipWhite(s, val.next)
                                   got == MapPut(acc, key, val.v)
                               IN  IF e > Len(s) THEN ParseFail
                                   ELSE IF s[e] = "}" THEN ParseOk(Obj(got), e + 1)
                                   ELSE IF s[e] = "," THEN ParseMembers(s, e + 1, got)
                                   ELSE ParseFail

\* elements after "[" or ",": value, then "," or "]"
ParseElements(s, i, acc) ==
    LET val == ParseValue(s, i)
    IN  IF ~val.ok THEN ParseFail
        ELSE LET e == SkipWhite(s, val.next)
                 got == Append(acc, val.v)
             IN  IF e > Len(s) THEN ParseFail
                 ELSE IF s[e] = "]" THEN ParseOk(Arr(got), e + 1)
                 ELSE IF s[e] = "," THEN ParseElements(s, e + 1, got)
                 ELSE ParseFail

ParseValue(s, i) ==
    LET k == SkipWhite(s, i)
    IN  IF k > Len(s) THEN ParseFail
        ELSE IF s[k] = Quote
             THEN IF CloseQuote(s, k + 1) = 0 THEN ParseFail
                  ELSE ParseOk(Str(SubSeq(s, k + 1, CloseQuote(s, k + 1) - 1)),
                               CloseQuote(s, k + 1) + 1)
        ELSE IF s[k] \in NumberWords THEN ParseOk(Num(NumberValue(s[k])), k + 1)
        ELSE IF s[k] = "null" THEN ParseOk(Null, k + 1)
        ELSE IF s[k] = "true" THEN ParseOk(Bool(TRUE), k + 1)
        ELSE IF s[k] = "false" THEN ParseOk(Bool(FALSE), k + 1)
        ELSE IF s[k] = "{"
             THEN IF SkipWhite(s, k + 1) <= Len(s) /\ s[SkipWhite(s, k + 1)] = "}"
                  THEN ParseOk(Obj(EmptyMap), SkipWhite(s, k + 1) + 1)
                  ELSE ParseMembers(s, k + 1, EmptyMap)
        ELSE IF s[k] = "["
             THEN IF SkipWhite(s, k + 1) <= Len(s) /\ s[SkipWhite(s, k + 1)] = "]"
                  THEN ParseOk(Arr(<<>>), SkipWhite(s, k + 1) + 1)
                  ELSE ParseElements(s, k + 1, <<>>)
        ELSE ParseFail

\* JSON.parse(text): one value, white space around it, nothing else
JsonParse(s) ==
    LET val == ParseValue(s, 1)
    IN  IF val.ok /\ SkipWhite(s, val.next) > Len(s) THEN val ELSE ParseFail

\* The message of the SyntaxError JSON.parse throws is the engine's own text
SyntaxErrorMessages ==
    { <<"Unexpected", " ", "token">>, <<"Unexpected", " ", "end", " ", "of", " ", "JSON", " ", "input">> }

-----------------------------------------------------------------------------
(* discoverJsonPrompts *)

MaxSources == 5
HashUri == <<"#">>
GroundedReference == <<"Grounded", " ", "Reference">>
FallbackSource == [title |-> <<"General", " ", "Industry", " ", "Documentation">>, uri |-> HashUri]
NoGroundedData == <<"No", " ", "grounded", " ", "data", " ", "available.">>
LogicFault == <<"The", " ", "synthesis", " ", "engine", " ", "encountered", " ", "a", " ", "logic", " ", "fault.">>

\* chunk => ({ title: chunk.web?.title || "Grounded Reference", uri: chunk.web?.uri || "#" })
ChunkToSource(chunk) ==
    [ title |-> IF Falsy(chunk.title) THEN GroundedReference ELSE chunk.title.s,
      uri   |-> IF Falsy(chunk.uri) THEN HashUri ELSE chunk.uri.s ]

UsableUri(src) == src.uri # HashUri

FirstN(q, n) == SubSeq(q, 1, IF Len(q) < n THEN Len(q) ELSE n)

\* The source extraction without its .slice(0, 5)
ExtractSourcesNoSlice(chunks) ==
    SelectSeq([i \in 1..Len(chunks) |-> ChunkToSource(chunks[i])], UsableUri)

\* (groundingChunks || []).map(...).filter(s => s.uri !== "#").slice(0, 5)
ExtractSources(chunks) ==
    FirstN(SelectSeq([i \in 1..Len(chunks) |-> ChunkToSource(chunks[i])], UsableUri),
           MaxSources)

\* sources.length > 0 ? sources : [{ title: "General Industry Documentation", uri: "#" }]
ReturnedSources(sources) == IF Len(sources) > 0 THEN sources ELSE <<FallbackSource>>

\* { ...v }: the own enumerable properties of v (indices, for a string or an array)
Spread(v) ==
    IF v.t = "obj" THEN v.p
    ELSE IF v.t = "str" THEN [k \in { <<ToString(i - 1)>> : i \in 1..Len(v.s) } |->
                                 Str(<< v.s[CHOOSE i \in 1..Len(v.s) : <<ToString(i - 1)>> = k] >>)]
    ELSE IF v.t = "arr" THEN [k \in { <<ToString(i - 1)>> : i \in 1..Len(v.a) } |->
                                 v.a[CHOOSE i \in 1..Len(v.a) : <<ToString(i - 1)>> = k]]
    ELSE EmptyMap

\* return { sources: ..., ...parsed }: a sources member of parsed wins
MakeResultParsedLast(parsed, sources) ==
    LET own == Spread(parsed)
    IN  Obj([k \in (DOMAIN own) \cup {<<"sources">>} |->
                IF k \in DOMAIN own THEN own[k] ELSE Arr(ReturnedSources(sources))])

\* return { ...parsed, sources: ... }
MakeResult(parsed, sources) ==
    Obj(MapPut(Spread(parsed), <<"sources">>, Arr(ReturnedSources(sources))))

\* throw new Error(error.message || "The synthesis engine encountered a logic fault. ...")
RethrownMessage(message) == IF Falsy(message) THEN LogicFault ELSE message.s

\* The research call is issued as discoverJsonPrompts is entered
ResearchCall(query) == [stage |-> "research", query |-> query, research |-> <<>>]
SynthesisCall(query, researchText) ==
    [stage |-> "synthesis", query |-> query, research |-> researchText]

-----------------------------------------------------------------------------
(* One invocation of discoverJsonPrompts *)

MaxChunks == 6

Queries == { <<"payments">>, <<"auth">> }

\* A grounding chunk, by what chunk.web?.title and chunk.web?.uri evaluate to
ChunkKinds ==
    { [title |-> Undefined, uri |-> Undefined],
      [title |-> Str(<<"Docs">>), uri |-> Str(<<"u1">>)],
      [title |-> Undefined, uri |-> Str(<<"u2">>)],
      [title |-> Str(<<"Docs">>), uri |-> Str(HashUri)] }

ChunkLists == UNION { [1..n -> ChunkKinds] : n \in 0..MaxChunks }

ResearchTexts == { Undefined, Str(<<"research">>) }

ResearchResponses == [text : ResearchTexts, chunks : ChunkLists]

RemoteErrorMessages == { Undefined, Str(<<"network", " ", "error">>) }

PromptMember == <<Quote, "jsonPrompt", Quote, ":", Quote, "p", Quote>>
EmptyPromptMember == <<Quote, "jsonPrompt", Quote, ":", Quote, Quote>>
ExampleMember == <<Quote, "exampleJson", Quote, ":", Quote, "e", Quote>>
TitleMember == <<Quote, "title", Quote, ":", Quote, "T", Quote>>
SourcesMember == <<Quote, "sources", Quote, ":", "[", "]">>
FullObject == <<"{">> \o TitleMember \o <<",">> \o PromptMember \o <<",">> \o ExampleMember \o <<"}">>

\* The texts the synthesis call returns here
SynthesisTexts ==
    { Undefined,
      Str(<<>>),
      Str(FullObject),
      Str(<<BackTick, BackTick, BackTick, "json", "\n">> \o FullObject
            \o <<"\n", BackTick, BackTick, BackTick>>),
      Str(<<"Here", " ", "it", " ", "is", ":", " ">> \o FullObject),
      Str(<<"{", "}">>),
      Str(<<"{">> \o EmptyPromptMember \o <<",">> \o ExampleMember \o <<"}">>),
      Str(<<"{">> \o PromptMember \o <<"}">>),
      Str(<<"{">> \o PromptMember \o <<",">> \o ExampleMember \o <<",">> \o SourcesMember \o <<"}">>),
      Str(<<"{">> \o PromptMember \o <<",">>),
      Str(<<"I", " ", "cannot", " ", "help">>),
      Str(<<"null">>) }

\* const rawResult = formatResponse.text || '{}';
\* const parsed = JSON.parse(cleanJsonResponse(rawResult));
ParseSynthesisText(text) ==
    JsonParse(cleanJsonResponse(IF Falsy(text) THEN Str(EmptyObjectText) ELSE text).s)

\* ParseSynthesisText, tabulated over the texts of the model
ParsedSynthesis == [text \in SynthesisTexts |-> ParseSynthesisText(text)]

SynInit ==
    /\ synPc = "research"
    /\ synQuery \in Queries
    /\ synResearch = Undefined
    /\ synSources = <<>>
    /\ synCalls = <<ResearchCall(synQuery)>>
    /\ synResult = Undefined
    /\ synError = <<>>
    /\ synText = Null

SynOff ==
    /\ synPc = "off"
    /\ synQuery = <<>>
    /\ synResearch = Undefined
    /\ synSources = <<>>
    /\ synCalls = <<>>
    /\ synResult = Undefined
    /\ synError = <<>>
    /\ synText = Null

-----------------------------------------------------------------------------
(* cleanJsonResponse applied to one argument *)

MaxPieces == 4

\* What an argument is built from: a fence, its language tag, a stray
\* backtick, braces, white space, a word of prose
SanPieces ==
    { <<BackTick, BackTick, BackTick>>, <<"json">>, <<"\n">>, <<BackTick>>,
      <<"{">>, <<"}">>, <<" ">>, <<"a">> }

RECURSIVE Flatten(_)
Flatten(ps) == IF ps = <<>> THEN <<>> ELSE Head(ps) \o Flatten(Tail(ps))

SanTexts ==
    { Flatten(ps) : ps \in UNION { [1..n -> SanPieces] : n \in 0..MaxPieces } }

SanInputs == {Undefined} \cup { Str(s) : s \in SanTexts }

SanInit ==
    /\ sanText \in SanInputs
    /\ sanOut = Undefined
    /\ sanPc = "call"

SanOff ==
    /\ sanText = Undefined
    /\ sanOut = Undefined
    /\ sanPc = "off"

Sanitize ==
    /\ sanPc = "call"
    /\ sanOut' = cleanJsonResponse(sanText)
    /\ sanPc' = "done"
    /\ UNCHANGED sanText
    /\ UNCHANGED notSanVars

\* The research response arrives: researchText and sources are computed and
\* the synthesis call is issued
ResearchReturns ==
    /\ synPc = "research"
    /\ \E resp \in ResearchResponses :
        /\ synResearch' = resp
        /\ synSources' = ExtractSources(resp.chunks)
        /\ synCalls' = Append(synCalls,
               SynthesisCall(synQuery, IF Falsy(resp.text) THEN NoGroundedData ELSE resp.text.s))
    /\ synPc' = "synthesis"
    /\ UNCHANGED <<synQuery, synResult, synError, synText>>
    /\ UNCHANGED notSynVars

\* Either remote call rejects with an error: the catch block rethrows
RemoteCallFails ==
    /\ synPc \in {"research", "synthesis"}
    /\ \E message \in RemoteErrorMessages : synError' = RethrownMessage(message)
    /\ synPc' = "threw"
    /\ UNCHANGED <<synQuery, synResearch, synSources, synCalls, synResult, synText>>
    /\ UNCHANGED notSynVars

\* The synthesis response arrives with text the sanitized form of which parses
SynthesisReturns ==
    /\ synPc = "synthesis"
    /\ \E text \in SynthesisTexts :
        /\ ParsedSynthesis[text].ok
        /\ synResult' = MakeResult(ParsedSynthesis[text].v, synSources)
        /\ synText' = text
    /\ synPc' = "returned"
    /\ UNCHANGED <<synQuery, synResearch, synSources, synCalls, synError>>
    /\ UNCHANGED notSynVars

\* The synthesis response arrives with text on which JSON.parse throws a
\* SyntaxError: the catch block rethrows
SynthesisUnparseable ==
    /\ synPc = "synthesis"
    /\ \E text \in SynthesisTexts : ~ParsedSynthesis[text].ok /\ synText' = text
    /\ \E message \in SyntaxErrorMessages : synError' = RethrownMessage(Str(message))
    /\ synPc' = "threw"
    /\ UNCHANGED <<synQuery, synResearch, synSources, synCalls, synResult>>
    /\ UNCHANGED notSynVars

-----------------------------------------------------------------------------
(* StockCard: the polling market feed *)

MaxFetches == 4
MaxSwitches == 2

Symbols == {"AAPL", "MSFT"}

PriceMember == <<Quote, "currentPrice", Quote, ":", "10">>
TextPriceMember == <<Quote, "currentPrice", Quote, ":", Quote, "10", Quote>>
HistoryMember ==
    <<Quote, "history", Quote, ":", "[", "{", Quote, "date", Quote, ":", Quote, "Mon", Quote, ",",
      Quote, "price", Quote, ":", "10", "}", "]">>
EmptyHistoryMember == <<Quote, "history", Quote, ":", "[", "]">>
TextHistoryMember == <<Quote, "history", Quote, ":", Quote, "n/a", Quote>>
GoodReply == <<"{">> \o PriceMember \o <<",">> \o HistoryMember \o <<"}">>

\* The texts a fetch's response carries here
PollTexts ==
    { Undefined,
      Str(GoodReply),
      Str(<<"Here", " ", "you", " ", "go:", "\n">> \o GoodReply),
      Str(<<"{">> \o PriceMember \o <<",">> \o EmptyHistoryMember \o <<"}">>),
      Str(<<"{">> \o PriceMember \o <<",">> \o TextHistoryMember \o <<"}">>),
      Str(<<"{">> \o PriceMember \o <<"}">>),
      Str(<<"{">> \o TextPriceMember \o <<",">> \o HistoryMember \o <<"}">>),
      Str(<<"No", " ", "data", " ", "for", " ", "ZZZ999">>),
      Str(<<"{">> \o PriceMember \o <<",">> \o <<"history", ":", "none", "}">>) }

\* response.candidates?.[0]?.groundingMetadata?.groundingChunks?.[0]?.web?.uri
PollSourceUrls == { Undefined, Str(<<"u1">>) }

\* Every text without a grounding citation, and the good reply with one
PollResponses ==
    { [text |-> tx, sourceUrl |-> Undefined] : tx \in PollTexts }
        \cup { [text |-> Str(GoodReply), sourceUrl |-> u] : u \in PollSourceUrls }

MalformedMessage ==
    <<"Logic", " ", "Sync", " ", "Failure:", " ", "The", " ", "model", " ", "returned", " ",
      "a", " ", "malformed", " ", "response", " ", "format.">>
EmptyMessage ==
    <<"Data", " ", "Incomplete:", " ", "The", " ", "market", " ", "feed", " ", "returned", " ",
      "an", " ", "empty", " ", "dataset", " ", "for", " ", "this", " ", "asset.">>
SignalFailed == <<"Establishing", " ", "Signal", " ", "failed.">>

GenericHint == <<"Check", " ", "your", " ", "connection">>
MalformedHint == <<"The", " ", "search", " ", "engine", " ", "could", " ", "not", " ", "structure", " ", "the", " ", "price", " ", "data">>
EmptyHint == <<"No", " ", "recent", " ", "historical", " ", "price", " ", "data", " ", "was", " ", "found">>

\* errorMessage.includes(word), for a word that is one unit
Includes(message, word) == \E i \in 1..Len(message) : message[i] = word

\* text.match(/\{[\s\S]*\}/): Undefined when there is no match, else the match
\* (greedy: from the first "{" to the last "}" after it)
MatchBraces(s) ==
    IF IndexOf(s, "{") # -1 /\ LastIndexOf(s, "}") > IndexOf(s, "{")
    THEN Str(Substring(s, IndexOf(s, "{"), LastIndexOf(s, "}") + 1))
    ELSE Undefined

\* v.length: defined for strings and arrays only
LengthOf(v) ==
    IF v.t = "str" THEN Num(Len(v.s)) ELSE IF v.t = "arr" THEN Num(Len(v.a)) ELSE Undefined

\* !parsed.history || parsed.history.length === 0 || typeof parsed.currentPrice !== 'number'
Incomplete(parsed) ==
    \/ Falsy(Get(parsed, <<"history">>))
    \/ LengthOf(Get(parsed, <<"history">>)) = Num(0)
    \/ Get(parsed, <<"currentPrice">>).t # "num"

\* The try block of fetchMarketData on a response: the snapshot to store, or
\* the message of the error thrown (that of a SyntaxError is the engine's own)
TryOutcomes(response) ==
    LET text == IF Falsy(response.text) THEN <<>> ELSE response.text.s
        jsonMatch == MatchBraces(text)
    IN  IF jsonMatch = Undefined THEN { [ok |-> FALSE, message |-> Str(MalformedMessage)] }
        ELSE IF ~JsonParse(jsonMatch.s).ok
             THEN { [ok |-> FALSE, message |-> Str(m)] : m \in SyntaxErrorMessages }
        ELSE IF Incomplete(JsonParse(jsonMatch.s).v)
             THEN { [ok |-> FALSE, message |-> Str(EmptyMessage)] }
        ELSE { [ok |-> TRUE,
                value |-> Obj(MapPut(JsonParse(jsonMatch.s).v.p, <<"sourceUrl">>, response.sourceUrl))] }

\* TryOutcomes, tabulated over the responses of the model
PollOutcomes == [response \in PollResponses |-> TryOutcomes(response)]

\* The catch block: err.message || "Establishing Signal failed."
CaughtMessage(message) == IF Falsy(message) THEN SignalFailed ELSE message.s

\* The catch block: the hint selected by the text of the message
HintFor(errorMessage) ==
    IF Includes(errorMessage, "malformed") THEN MalformedHint
    ELSE IF Includes(errorMessage, "empty") THEN EmptyHint
    ELSE GenericHint

Fetch(sym, initial) == [sym |-> sym, initial |-> initial]
OneFetch(sym, initial) == SetToBag({Fetch(sym, initial)})

\* clearInterval doing nothing
ClearNothing(timers, id) == timers

\* clearInterval with the id of the interval armed before the last one
ClearStaleInterval(timers, id) == { tm \in timers : tm.id # id - 1 }

\* clearInterval(id)
ClearInterval(timers, id) == { tm \in timers : tm.id # id }

\* fetchMarketData taking the refresh branch whatever its argument
StartFetchAsRefresh(sym, initial) ==
    /\ pollIssued < MaxFetches
    /\ pollIssued' = pollIssued + 1
    /\ pollInFlight' = pollInFlight (+) OneFetch(sym, initial)
    /\ pollError' = Null
    /\ isRefreshing' = TRUE /\ UNCHANGED <<isLoading, pollData>>

\* fetchMarketData(isInitial) up to its await, by the closure of a render with
\* subject sym: the flags are set and the request is sent
StartFetch(sym, initial) ==
    /\ pollIssued < MaxFetches
    /\ pollIssued' = pollIssued + 1
    /\ pollInFlight' = pollInFlight (+) OneFetch(sym, initial)
    /\ pollError' = Null
    /\ IF initial
       THEN isLoading' = TRUE /\ pollData' = Null /\ UNCHANGED isRefreshing
       ELSE isRefreshing' = TRUE /\ UNCHANGED <<isLoading, pollData>>

\* The interval armed by the effect fires: fetchMarketData(false)
TimerTick ==
    /\ \E tm \in pollTimers : StartFetch(tm.sym, FALSE)
    /\ pollLast' = Null
    /\ UNCHANGED <<pollMounted, activeSymbol, refreshInterval, pollTimers, pollSwitches>>
    /\ UNCHANGED notPollVars

\* "Retry Connection", shown when not loading and there is an error or no data
Retry ==
    /\ pollMounted
    /\ ~isLoading /\ (pollError # Null \/ pollData = Null)
    /\ StartFetch(activeSymbol, TRUE)
    /\ pollLast' = Null
    /\ UNCHANGED <<pollMounted, activeSymbol, refreshInterval, pollTimers, pollSwitches>>
    /\ UNCHANGED notPollVars

\* handleSymbolSubmit with a new symbol, then the effect on [activeSymbol]:
\* the cleanup clears the interval of refreshInterval.current, the effect
\* calls fetchMarketData(true), clears again and arms a new interval
SymbolSubmit ==
    /\ pollMounted
    /\ pollSwitches < MaxSwitches
    /\ \E sym \in Symbols :
        /\ sym # activeSymbol
        /\ activeSymbol' = sym
        /\ StartFetch(sym, TRUE)
        /\ refreshInterval' = refreshInterval + 1
        /\ pollTimers' = ClearInterval(pollTimers, refreshInterval)
                            \cup { [id |-> refreshInterval + 1, sym |-> sym] }
    /\ pollSwitches' = pollSwitches + 1
    /\ pollLast' = Null
    /\ UNCHANGED pollMounted
    /\ UNCHANGED notPollVars

\* The component is removed: the effect's cleanup clears the interval
Unmount ==
    /\ pollMounted
    /\ pollMounted' = FALSE
    /\ pollTimers' = ClearInterval(pollTimers, refreshInterval)
    /\ pollLast' = Null
    /\ UNCHANGED <<activeSymbol, pollData, isLoading, isRefreshing, pollError,
                   refreshInterval, pollInFlight, pollIssued, pollSwitches>>
    /\ UNCHANGED notPollVars

\* The catch block setting the error for every fetch
SurfacesAlways(f) == TRUE

\* if (isInitial) setError(...)
Surfaces(f) == f.initial

\* What the state setters do once the component is unmounted: nothing
SettersAfter(f, ok, value, message) ==
    IF ~pollMounted
    THEN UNCHANGED <<pollData, pollError, isLoading, isRefreshing>>
    ELSE /\ pollData' = IF ok THEN [t |-> "snapshot", value |-> value,
                                    sym |-> f.sym, initial |-> f.initial]
                        ELSE pollData
         /\ pollError' = IF ~ok /\ Surfaces(f)
                         THEN [message |-> CaughtMessage(message),
                               hint |-> HintFor(CaughtMessage(message))]
                         ELSE pollError
         /\ isLoading' = FALSE
         /\ isRefreshing' = FALSE

\* The response of a fetch arrives: the rest of the try block, catch, finally
FetchReturns ==
    /\ \E f \in BagToSet(pollInFlight), response \in PollResponses :
        /\ pollInFlight' = pollInFlight (-) OneFetch(f.sym, f.initial)
        /\ pollLast' = [t |-> "fetch", sym |-> f.sym, initial |-> f.initial, response |-> response]
        /\ \E out \in PollOutcomes[response] :
            IF out.ok THEN SettersAfter(f, TRUE, out.value, Undefined)
            ELSE SettersAfter(f, FALSE, Undefined, out.message)
    /\ UNCHANGED <<pollMounted, activeSymbol, refreshInterval, pollTimers, pollIssued, pollSwitches>>
    /\ UNCHANGED notPollVars

\* The remote call of a fetch rejects: catch, finally
FetchFails ==
    /\ \E f \in BagToSet(pollInFlight), message \in RemoteErrorMessages :
        /\ pollInFlight' = pollInFlight (-) OneFetch(f.sym, f.initial)
        /\ pollLast' = [t |-> "fetch", sym |-> f.sym, initial |-> f.initial, response |-> Thrown]
        /\ SettersAfter(f, FALSE, Undefined, message)
    /\ UNCHANGED <<pollMounted, activeSymbol, refreshInterval, pollTimers, pollIssued, pollSwitches>>
    /\ UNCHANGED notPollVars

\* After the first render and its effect: the initial fetch is in flight and
\* the interval is armed
PollInit ==
    /\ pollMounted = TRUE
    /\ activeSymbol \in Symbols
    /\ pollData = Null
    /\ isLoading = TRUE
    /\ isRefreshing = FALSE
    /\ pollError = Null
    /\ refreshInterval = 1
    /\ pollTimers = { [id |-> 1, sym |-> activeSymbol] }
    /\ pollInFlight = OneFetch(activeSymbol, TRUE)
    /\ pollIssued = 1
    /\ pollSwitches = 0
    /\ pollLast = Null

PollOff ==
    /\ pollMounted = FALSE
    /\ activeSymbol = ""
    /\ pollData = Null
    /\ isLoading = TRUE
    /\ isRefreshing = FALSE
    /\ pollError = Null
    /\ refreshInterval = 0
    /\ pollTimers = {}
    /\ pollInFlight = EmptyBag
    /\ pollIssued = 0
    /\ pollSwitches = 0
    /\ pollLast = Null

-----------------------------------------------------------------------------
(* ChatWidget: the streaming conversation *)

MaxSends == 2
MaxContextChanges == 2

\* The SearchResults the App passes as currentContext: two titles, and a
\* second result under the first title
Contexts ==
    { [title |-> "A", jsonPrompt |-> "pa"],
      [title |-> "B", jsonPrompt |-> "pb"],
      [title |-> "A", jsonPrompt |-> "pa2"] }

\* currentContext?.title
TitleOf(ctx) == IF ctx = Null THEN "undefined" ELSE ctx.title

UserTexts == { <<"hi">>, <<"more">> }

\* What a stream yields: the text of each chunk, in order (c.text may be undefined)
Streams ==
    { <<>>,
      <<Str(<<"a">>)>>,
      <<Str(<<"a">>), Str(<<"b">>)>>,
      <<Str(<<"b">>), Undefined, Str(<<"a">>)>> }

InitialGreeting == <<"Assistant", " ", "active.", " ", "Need", " ", "help", " ", "refining", " ", "structural", " ", "logic?">>
\* The failure turn with no text in it
BlankMarker == <<>>

FailureMarker == <<"Logic", " ", "trace", " ", "failed.">>
ContextGreeting(title) ==
    <<"I've", " ", "analyzed", " ", "the", " ", Quote, title, Quote, " ", "structure.", " ",
      "Ready", " ", "for", " ", "refinements.">>

\* A turn; sess is history: the session whose send wrote it (0: a greeting)
Turn(role, text, sess) == [role |-> role, text |-> text, sess |-> sess]

\* systemInstruction: "... Page context: " + JSON.stringify({title, prompt}) or 'No active context.'
SeedOf(ctx) ==
    IF ctx = Null THEN [none |-> TRUE]
    ELSE [title |-> ctx.title, prompt |-> ctx.jsonPrompt]

\* initChat(): the session of chatInstance.current, created when there is none
InitChatSession ==
    IF chatInstance = Null
    THEN [id |-> chatCreated + 1, seed |-> SeedOf(chatContext)]
    ELSE chatInstance

\* fullResponse += textChunk, with the operands swapped
PrependChunk(fullResponse, chunk) ==
    (IF Falsy(chunk) THEN <<>> ELSE chunk.s) \o fullResponse

\* const textChunk = c.text || ''; fullResponse += textChunk
AppendChunk(fullResponse, chunk) ==
    fullResponse \o (IF Falsy(chunk) THEN <<>> ELSE chunk.s)

\* The record of a send that finished, unless the title effect ran meanwhile
Finished(snd, ok) ==
    IF snd.orphan THEN chatDone
    ELSE Append(chatDone, [user |-> snd.user, got |-> snd.got, ok |-> ok, base |-> snd.base,
                           opened |-> snd.phase = "streaming"])

\* The App replaces state.results; the effect on [currentContext?.title]
\* runs when the title differs
ContextChange ==
    /\ chatChanges < MaxContextChanges
    /\ chatChanges' = chatChanges + 1
    /\ \E ctx \in Contexts \cup {Null} :
        /\ ctx # chatContext
        /\ chatContext' = ctx
        /\ IF TitleOf(ctx) # TitleOf(chatContext)
           THEN /\ chatInstance' = Null
                /\ messages' = IF ctx # Null
                               THEN <<Turn("model", ContextGreeting(ctx.title), 0)>>
                               ELSE messages
                /\ chatDone' = <<>>
                /\ chatSends' = { [snd EXCEPT !.orphan = TRUE,
                                               !.turn = IF ctx # Null THEN 0 ELSE @] :
                                    snd \in chatSends }
           ELSE UNCHANGED <<chatInstance, messages, chatDone, chatSends>>
    /\ UNCHANGED <<isTyping, chatCreated, chatSent>>
    /\ UNCHANGED notChatVars

\* The guard of handleSend without its isTyping test
MaySendAlways(typing) == TRUE

\* if (!input.trim() || isTyping) return;  (the input is not blank here)
MaySend(typing) == ~typing

\* handleSend up to its await: the user turn, isTyping, initChat, sendMessageStream
Send ==
    /\ MaySend(isTyping)
    /\ chatSent < MaxSends
    /\ chatSent' = chatSent + 1
    /\ \E text \in UserTexts :
        /\ messages' = Append(messages, Turn("user", text, InitChatSession.id))
        /\ chatSends' = chatSends \cup
              { [ id |-> chatSent + 1, session |-> InitChatSession, phase |-> "opening",
                  fullResponse |-> <<>>, rest |-> <<>>, got |-> <<>>, user |-> text,
                  base |-> messages, ctx |-> chatContext, orphan |-> FALSE,
                  turn |-> 0 ] }
    /\ isTyping' = TRUE
    /\ chatInstance' = InitChatSession
    /\ chatCreated' = InitChatSession.id
    /\ UNCHANGED <<chatContext, chatChanges, chatDone>>
    /\ UNCHANGED notChatVars

\* sendMessageStream resolves: the empty model turn is appended
StreamOpens ==
    /\ \E snd \in chatSends, content \in Streams :
        /\ snd.phase = "opening"
        /\ messages' = Append(messages, Turn("model", <<>>, snd.session.id))
        /\ chatSends' = (chatSends \ {snd}) \cup
              { [snd EXCEPT !.phase = "streaming", !.rest = content,
                            !.turn = Len(messages) + 1] }
    /\ UNCHANGED <<chatContext, isTyping, chatInstance, chatCreated, chatSent, chatChanges, chatDone>>
    /\ UNCHANGED notChatVars

\* sendMessageStream rejects: catch appends the failure turn, finally clears isTyping
StreamRejects ==
    /\ \E snd \in chatSends :
        /\ snd.phase = "opening"
        /\ messages' = Append(messages, Turn("model", FailureMarker, snd.session.id))
        /\ chatSends' = chatSends \ {snd}
        /\ chatDone' = Finished(snd, FALSE)
    /\ isTyping' = FALSE
    /\ UNCHANGED <<chatContext, chatInstance, chatCreated, chatSent, chatChanges>>
    /\ UNCHANGED notChatVars

\* One chunk arrives: fullResponse grows and is written into the last turn
Chunk ==
    /\ \E snd \in chatSends :
        /\ snd.phase = "streaming"
        /\ snd.rest # <<>>
        /\ messages' = [messages EXCEPT ![Len(messages)] =
              Turn(@.role, AppendChunk(snd.fullResponse, Head(snd.rest)), snd.session.id)]
        /\ chatSends' = (chatSends \ {snd}) \cup
              { [snd EXCEPT !.fullResponse = AppendChunk(snd.fullResponse, Head(snd.rest)),
                            !.rest = Tail(snd.rest),
                            !.got = Append(snd.got, Head(snd.rest))] }
    /\ UNCHANGED <<chatContext, isTyping, chatInstance, chatCreated, chatSent, chatChanges, chatDone>>
    /\ UNCHANGED notChatVars

\* The stream is exhausted: finally clears isTyping
StreamEnds ==
    /\ \E snd \in chatSends :
        /\ snd.phase = "streaming"
        /\ snd.rest = <<>>
        /\ chatSends' = chatSends \ {snd}
        /\ chatDone' = Finished(snd, TRUE)
    /\ isTyping' = FALSE
    /\ UNCHANGED <<chatContext, messages, chatInstance, chatCreated, chatSent, chatChanges>>
    /\ UNCHANGED notChatVars

\* The iteration throws: catch appends the failure turn, finally clears isTyping
StreamBreaks ==
    /\ \E snd \in chatSends :
        /\ snd.phase = "streaming"
        /\ messages' = Append(messages, Turn("model", FailureMarker, snd.session.id))
        /\ chatSends' = chatSends \ {snd}
        /\ chatDone' = Finished(snd, FALSE)
    /\ isTyping' = FALSE
    /\ UNCHANGED <<chatContext, chatInstance, chatCreated, chatSent, chatChanges>>
    /\ UNCHANGED notChatVars

\* After the first render (the App's results are null) and its effects
ChatInit ==
    /\ chatContext = Null
    /\ messages = <<Turn("model", InitialGreeting, 0)>>
    /\ isTyping = FALSE
    /\ chatInstance = Null
    /\ chatSends = {}
    /\ chatCreated = 0
    /\ chatSent = 0
    /\ chatChanges = 0
    /\ chatDone = <<>>

ChatOff ==
    /\ chatContext = Null
    /\ messages = <<>>
    /\ isTyping = FALSE
    /\ chatInstance = Null
    /\ chatSends = {}
    /\ chatCreated = 0
    /\ chatSent = 0
    /\ chatChanges = 0
    /\ chatDone = <<>>

-----------------------------------------------------------------------------
(* ResultView: schema audit and schema derivation *)

ValidationComplete == <<"Validation", " ", "complete.">>
AuditFailed == <<"Schema", " ", "audit", " ", "failed.">>
ArchitecturalFault == <<"Architectural", " ", "Fault.">>

\* The result prop: jsonSchema is optional, exampleJson may be empty
RvResults ==
    [ jsonSchema : { Undefined, Str(<<"S0">>) },
      exampleJson : { Str(<<>>), Str(<<"{", "}">>) } ]

\* The texts a derivation call returns (undefined: none)
DeriveTexts ==
    { Undefined, Str(<<>>), Str(<<" ", "\n">>), Str(<<"S1">>), Str(<<" ", "S2", "\n">>) }

\* The texts a validation call returns
ReportTexts == { Undefined, Str(<<>>), Str(<<"compliant">>), Str(<<"violations">>) }

\* The report with the fallback message left out
ReportOfRawText(text) == text

\* response.text || 'Validation complete.'
ReportOf(text) == IF Falsy(text) THEN Str(ValidationComplete) ELSE text

\* const schemaToUse = derivedSchema || result.jsonSchema (also displayedSchema)
SchemaToUse(derived, result) ==
    IF Falsy(derived) THEN result.jsonSchema ELSE derived

\* response.text?.trim()
TrimmedText(text) == IF text.t = "str" THEN Str(Trim(text.s)) ELSE Undefined

\* The Audit button (disabled while validating or without a displayed
\* schema), then validateAgainstSchema up to its await
ValidateStart ==
    /\ ~isValidatingSchema
    /\ ~Falsy(SchemaToUse(derivedSchema, rvResult))
    /\ ~Falsy(rvResult.exampleJson)
    /\ isValidatingSchema' = TRUE
    /\ validationReport' = Null
    /\ rvValidations' = rvValidations \cup
          { [ schema |-> SchemaToUse(derivedSchema, rvResult),
              json |-> rvResult.exampleJson,
              derived |-> rvLastDerived ] }
    /\ UNCHANGED <<rvResult, derivedSchema, isDerivingSchema, schemaError, activeTab,
                   rvDerivations, rvLastDerived, rvLastValidation, rvLastDerivation>>
    /\ UNCHANGED notRvVars

\* The validation call returns: the report is its text or the completion message
ValidateReturns ==
    /\ \E call \in rvValidations, text \in ReportTexts :
        /\ rvValidations' = rvValidations \ {call}
        /\ validationReport' = ReportOf(text)
        /\ rvLastValidation' = [t |-> "returned", text |-> text, schema |-> call.schema]
    /\ isValidatingSchema' = FALSE
    /\ UNCHANGED <<rvResult, derivedSchema, isDerivingSchema, schemaError, activeTab,
                   rvDerivations, rvLastDerived, rvLastDerivation>>
    /\ UNCHANGED notRvVars

\* The validation call rejects: the report is the failure message
ValidateFails ==
    /\ \E call \in rvValidations :
        /\ rvValidations' = rvValidations \ {call}
        /\ rvLastValidation' = [t |-> "failed", schema |-> call.schema]
    /\ validationReport' = Str(AuditFailed)
    /\ isValidatingSchema' = FALSE
    /\ UNCHANGED <<rvResult, derivedSchema, isDerivingSchema, schemaError, activeTab,
                   rvDerivations, rvLastDerived, rvLastDerivation>>
    /\ UNCHANGED notRvVars

\* The derive button (disabled while deriving or without an example), then
\* deriveSchemaFromExample up to its await
DeriveStart ==
    /\ ~isDerivingSchema
    /\ ~Falsy(rvResult.exampleJson)
    /\ isDerivingSchema' = TRUE
    /\ rvDerivations' = rvDerivations \cup { [json |-> rvResult.exampleJson] }
    /\ UNCHANGED <<rvResult, derivedSchema, validationReport, isValidatingSchema, schemaError,
                   activeTab, rvValidations, rvLastDerived, rvLastValidation, rvLastDerivation>>
    /\ UNCHANGED notRvVars

\* The derivation call returns: setDerivedSchema(response.text?.trim())
DeriveReturns ==
    /\ \E call \in rvDerivations, text \in DeriveTexts :
        /\ rvDerivations' = rvDerivations \ {call}
        /\ derivedSchema' = TrimmedText(text)
        /\ rvLastDerived' = [t |-> "derived", text |-> text]
        /\ rvLastDerivation' = [t |-> "returned", text |-> text]
    /\ activeTab' = "schema"
    /\ isDerivingSchema' = FALSE
    /\ UNCHANGED <<rvResult, validationReport, isValidatingSchema, schemaError, rvValidations,
                   rvLastValidation>>
    /\ UNCHANGED notRvVars

\* The derivation call rejects: setSchemaError
DeriveFails ==
    /\ \E call \in rvDerivations : rvDerivations' = rvDerivations \ {call}
    /\ schemaError' = Str(ArchitecturalFault)
    /\ rvLastDerivation' = [t |-> "failed"]
    /\ isDerivingSchema' = FALSE
    /\ UNCHANGED <<rvResult, derivedSchema, validationReport, isValidatingSchema, activeTab,
                   rvValidations, rvLastDerived, rvLastValidation>>
    /\ UNCHANGED notRvVars

\* After the first render for some result
RvInit ==
    /\ rvResult \in RvResults
    /\ derivedSchema = Null
    /\ validationReport = Null
    /\ isValidatingSchema = FALSE
    /\ isDerivingSchema = FALSE
    /\ schemaError = Null
    /\ activeTab = "json"
    /\ rvValidations = {}
    /\ rvDerivations = {}
    /\ rvLastDerived = Null
    /\ rvLastValidation = Null
    /\ rvLastDerivation = Null

RvOff ==
    /\ rvResult = Null
    /\ derivedSchema = Null
    /\ validationReport = Null
    /\ isValidatingSchema = FALSE
    /\ isDerivingSchema = FALSE
    /\ schemaError = Null
    /\ activeTab = "off"
    /\ rvValidations = {}
    /\ rvDerivations = {}
    /\ rvLastDerived = Null
    /\ rvLastValidation = Null
    /\ rvLastDerivation = Null

-----------------------------------------------------------------------------
(* App: searches, history, favorites *)

MaxSearches == 3
MaxSaves == 2
HistoryLimit == 10

NeuralLink == <<"The", " ", "neural", " ", "link", " ", "was", " ", "severed.">>

\* The SearchResults discoverJsonPrompts returns here (id 0: not a favorite)
Artifacts == { [title |-> c.title, jsonPrompt |-> c.jsonPrompt, id |-> 0] : c \in Contexts }

\* The message of the Error discoverJsonPrompts throws
ThrownMessages ==
    { Str(RethrownMessage(m)) : m \in RemoteErrorMessages }
        \cup { Str(RethrownMessage(Str(m))) : m \in SyntaxErrorMessages }

\* err.message || 'The neural link was severed. Please try again.'
AppErrorOf(message) == IF Falsy(message) THEN NeuralLink ELSE message.s

\* [query, ...prev.searchHistory].slice(0, 10): the filter left out
PushHistoryNoFilter(history, query) ==
    FirstN(<<query>> \o history, HistoryLimit)

\* [query, ...prev.searchHistory.filter(h => h !== query)].slice(0, 10)
PushHistory(history, query) ==
    FirstN(<<query>> \o SelectSeq(history, LAMBDA h : h # query), HistoryLimit)

\* The titles of the favorites
FavoriteTitles(favs) == { favs[i].title : i \in 1..Len(favs) }

\* state.favorites.some(f => f.id === result.id): the test made on the id
IsAlreadySavedById(favs, result) == \E i \in 1..Len(favs) : favs[i].id = result.id

\* state.favorites.some(f => f.title === result.title)
IsAlreadySaved(favs, result) == \E i \in 1..Len(favs) : favs[i].title = result.title

\* handleSearch(query) with a query that is not blank, up to its await
StartSearch(query) ==
    /\ appIssued < MaxSearches
    /\ appIssued' = appIssued + 1
    /\ appIsSearching' = TRUE
    /\ appQuery' = query
    /\ appError' = Null
    /\ appResults' = Null
    /\ appSearches' = appSearches \cup { [id |-> appIssued + 1, query |-> query] }
    /\ appLast' = Null
    /\ UNCHANGED <<searchHistory, favorites, appSaved>>

\* SearchBar's handleSubmit: input.trim() && !isLoading
SearchBarSubmit ==
    /\ ~appIsSearching
    /\ \E query \in Queries : StartSearch(query)
    /\ UNCHANGED notAppVars

\* A suggestion button, shown when there are no results and no search runs
SuggestionClick ==
    /\ appResults = Null /\ ~appIsSearching
    /\ \E query \in Queries : StartSearch(query)
    /\ UNCHANGED notAppVars

\* SearchHistory's onSelect: an entry of the history, whatever the state
HistorySelect ==
    /\ \E i \in 1..Len(searchHistory) : StartSearch(searchHistory[i])
    /\ UNCHANGED notAppVars

\* The retry button, shown when state.error is set: handleSearch(state.query)
RetrySearch ==
    /\ appError # Null
    /\ appQuery # <<>>
    /\ StartSearch(appQuery)
    /\ UNCHANGED notAppVars

\* discoverJsonPrompts resolves
SearchReturns ==
    /\ \E search \in appSearches, results \in Artifacts :
        /\ appSearches' = appSearches \ {search}
        /\ appResults' = results
        /\ searchHistory' = PushHistory(searchHistory, search.query)
        /\ appLast' = [t |-> "returned", query |-> search.query, id |-> search.id]
    /\ appIsSearching' = FALSE
    /\ UNCHANGED <<appQuery, appError, favorites, appIssued, appSaved>>
    /\ UNCHANGED notAppVars

\* discoverJsonPrompts rejects
SearchFails ==
    /\ \E search \in appSearches, message \in ThrownMessages :
        /\ appSearches' = appSearches \ {search}
        /\ appError' = AppErrorOf(message)
        /\ appLast' = [t |-> "failed", query |-> search.query, id |-> search.id]
    /\ appIsSearching' = FALSE
    /\ UNCHANGED <<appQuery, appResults, searchHistory, favorites, appIssued, appSaved>>
    /\ UNCHANGED notAppVars

\* handleToggleSave(state.results), from the ResultView
ToggleSave ==
    /\ ~appIsSearching /\ appResults # Null
    /\ IF IsAlreadySaved(favorites, appResults)
       THEN /\ favorites' = SelectSeq(favorites, LAMBDA f : f.title # appResults.title)
            /\ UNCHANGED appSaved
       ELSE /\ appSaved < MaxSaves
            /\ appSaved' = appSaved + 1
            /\ favorites' = <<[appResults EXCEPT !.id = appSaved + 1]>> \o favorites
    /\ appLast' = [t |-> "toggled", title |-> appResults.title,
                   before |-> FavoriteTitles(favorites)]
    /\ UNCHANGED <<appIsSearching, appQuery, appResults, appError, searchHistory, appSearches,
                   appIssued>>
    /\ UNCHANGED notAppVars

\* onRemove(id), from the ResultView or the FavoritesList
RemoveFavorite ==
    /\ ~appIsSearching
    /\ \E i \in 1..Len(favorites) :
        favorites' = SelectSeq(favorites, LAMBDA f : f.id # favorites[i].id)
    /\ appLast' = Null
    /\ UNCHANGED <<appIsSearching, appQuery, appResults, appError, searchHistory, appSearches,
                   appIssued, appSaved>>
    /\ UNCHANGED notAppVars

\* The FavoritesList's onSelect, shown when there are no results and no search runs
SelectFavorite ==
    /\ appResults = Null /\ ~appIsSearching
    /\ \E i \in 1..Len(favorites) :
        /\ appResults' = favorites[i]
        /\ appQuery' = <<favorites[i].title>>
    /\ appLast' = Null
    /\ UNCHANGED <<appIsSearching, appError, searchHistory, favorites, appSearches, appIssued,
                   appSaved>>
    /\ UNCHANGED notAppVars

\* SearchHistory's onClear (the list is rendered when it is not empty)
ClearHistory ==
    /\ searchHistory # <<>>
    /\ searchHistory' = <<>>
    /\ appLast' = Null
    /\ UNCHANGED <<appIsSearching, appQuery, appResults, appError, favorites, appSearches,
                   appIssued, appSaved>>
    /\ UNCHANGED notAppVars

\* After the first render, with nothing in localStorage
AppInit ==
    /\ appIsSearching = FALSE
    /\ appQuery = <<>>
    /\ appResults = Null
    /\ appError = Null
    /\ searchHistory = <<>>
    /\ favorites = <<>>
    /\ appSearches = {}
    /\ appIssued = 0
    /\ appSaved = 0
    /\ appLast = Null

\* Ten queries of earlier sessions, the last of them one of Queries
StoredQueries ==
    << <<"q1">>, <<"q2">>, <<"q3">>, <<"q4">>, <<"q5">>, <<"q6">>, <<"q7">>, <<"q8">>,
       <<"q9">>, <<"payments">> >>

\* The histories localStorage holds here: what that many successful
\* searches for distinct queries, the oldest one last, have left
StoredHistories == { SubSeq(StoredQueries, 11 - n, 10) : n \in {0, 10} }

\* After the first render, with a history of earlier sessions in
\* localStorage; appIssued counts one search for those that built it
AppInitWithHistory ==
    /\ appIsSearching = FALSE
    /\ appQuery = <<>>
    /\ appResults = Null
    /\ appError = Null
    /\ searchHistory \in StoredHistories
    /\ favorites = <<>>
    /\ appSearches = {}
    /\ appIssued = 1
    /\ appSaved = 0
    /\ appLast = Null

AppOff ==
    /\ appIsSearching = FALSE
    /\ appQuery = <<>>
    /\ appResults = Null
    /\ appError = Null
    /\ searchHistory = <<>>
    /\ favorites = <<>>
    /\ appSearches = {}
    /\ appIssued = -1
    /\ appSaved = 0
    /\ appLast = Null

-----------------------------------------------------------------------------
(* Specifications, one per component *)

\* SpecSanitize: cleanJsonResponse applied to one argument
InitSanitize == SanInit /\ SynOff /\ PollOff /\ ChatOff /\ RvOff /\ AppOff
NextSanitize == Sanitize
SpecSanitize == InitSanitize /\ [][NextSanitize]_vars

\* SpecSynth: one invocation of discoverJsonPrompts
InitSynth == SanOff /\ SynInit /\ PollOff /\ ChatOff /\ RvOff /\ AppOff

NextSynth ==
    \/ ResearchReturns
    \/ RemoteCallFails
    \/ SynthesisReturns
    \/ SynthesisUnparseable

SpecSynth == InitSynth /\ [][NextSynth]_vars

\* SpecPoller: one StockCard, from its mounting on
InitPoller == SanOff /\ SynOff /\ PollInit /\ ChatOff /\ RvOff /\ AppOff

NextPoller ==
    \/ TimerTick
    \/ Retry
    \/ SymbolSubmit
    \/ Unmount
    \/ FetchReturns
    \/ FetchFails

SpecPoller == InitPoller /\ [][NextPoller]_vars

\* SpecChat: one ChatWidget, from its mounting on
InitChat == SanOff /\ SynOff /\ PollOff /\ ChatInit /\ RvOff /\ AppOff

NextChat ==
    \/ ContextChange
    \/ Send
    \/ StreamOpens
    \/ StreamRejects
    \/ Chunk
    \/ StreamEnds
    \/ StreamBreaks

SpecChat == InitChat /\ [][NextChat]_vars

\* SpecAudit: one ResultView, from its mounting on
InitAudit == SanOff /\ SynOff /\ PollOff /\ ChatOff /\ RvInit /\ AppOff

NextAudit ==
    \/ ValidateStart
    \/ ValidateReturns
    \/ ValidateFails
    \/ DeriveStart
    \/ DeriveReturns
    \/ DeriveFails

SpecAudit == InitAudit /\ [][NextAudit]_vars

\* SpecApp: the App's own state, from its mounting on
InitApp == SanOff /\ SynOff /\ PollOff /\ ChatOff /\ RvOff /\ AppInit

NextApp ==
    \/ SearchBarSubmit
    \/ SuggestionClick
    \/ HistorySelect
    \/ RetrySearch
    \/ SearchReturns
    \/ SearchFails
    \/ ToggleSave
    \/ RemoveFavorite
    \/ SelectFavorite
    \/ ClearHistory

SpecApp == InitApp /\ [][NextApp]_vars

\* SpecHistory: the searches of an App mounted with the history of earlier
\* sessions (the favorites, which no search reads or writes, left alone)
InitHistory == SanOff /\ SynOff /\ PollOff /\ ChatOff /\ RvOff /\ AppInitWithHistory

NextHistory ==
    \/ SearchBarSubmit
    \/ SuggestionClick
    \/ HistorySelect
    \/ RetrySearch
    \/ SearchReturns
    \/ SearchFails
    \/ ClearHistory

SpecHistory == InitHistory /\ [][NextHistory]_vars

\* SpecComponents: any one of the components that run remote operations

AppMounted == appIssued >= 0
RvMounted == rvResult # Null
ChatMounted == messages # <<>>

InitComponents == InitApp \/ InitAudit \/ InitChat \/ InitPoller

NextComponents ==
    \/ AppMounted /\ NextApp
    \/ RvMounted /\ NextAudit
    \/ ChatMounted /\ NextChat
    \/ NextPoller

SpecComponents == InitComponents /\ [][NextComponents]_vars

-----------------------------------------------------------------------------
(* Claims on cleanJsonResponse *)

\* The text has a "{" and its last "}" comes after its first "{"
HasBraces(s) == IndexOf(s, "{") # -1 /\ LastIndexOf(s, "}") > IndexOf(s, "{")

\* The text holds a JSON object (here the empty object, white space allowed
\* inside it); whatever is around it is fences and prose
ContainsJsonObject(s) ==
    \E i, j \in 1..Len(s) :
        /\ i < j /\ s[i] = "{" /\ s[j] = "}"
        /\ \A k \in (i+1)..(j-1) : IsWhite(s[k])

\* The units of the text from its first "{" to its last "}"
BraceSpan(s) == SubSeq(s, IndexOf(s, "{") + 1, LastIndexOf(s, "}") + 1)

\* No fence marker between the first "{" and the last "}" of the text
NoFenceInSpan(s) == \A k \in 1..Len(BraceSpan(s)) : FenceLenAt(BraceSpan(s), k) = 0

\* C6 as stated: for every input that contains a JSON object wrapped in
\* fences and/or prose, sanitize returns the substring of the input from its
\* first "{" to its last "}".
C6_ReturnsInputBraceSpan ==
    (sanPc = "done" /\ sanText.t = "str" /\ ContainsJsonObject(sanText.s))
        => sanOut = Str(BraceSpan(sanText.s))

\* C6 amended: the same, for inputs with no fence marker between the first
\* "{" and the last "}".
C6_ReturnsBraceSpanWhenNoFenceInside ==
    (sanPc = "done" /\ sanText.t = "str" /\ HasBraces(sanText.s)
        /\ NoFenceInSpan(sanText.s))
        => sanOut = Str(BraceSpan(sanText.s))

\* C6 witness: a fenced object with prose after it has been sanitized to the object
C6_Witness ==
    /\ sanPc = "done" /\ sanText.t = "str"
    /\ ContainsJsonObject(sanText.s) /\ NoFenceInSpan(sanText.s)
    /\ FenceLenAt(sanText.s, 1) > 0
    /\ sanText.s[Len(sanText.s)] = "a"
    /\ sanOut = Str(EmptyObjectText)

\* C7: sanitize never fails (it returns a string for every argument), and
\* for the empty string and for undefined it returns "{}".
C7_NeverFailsAndEmptyGivesObject ==
    sanPc = "done" =>
        /\ sanOut.t = "str"
        /\ (sanText = Undefined \/ sanText = Str(<<>>)) => sanOut = Str(EmptyObjectText)

\* C7 witness: undefined has been sanitized to "{}"
C7_Witness == sanPc = "done" /\ sanText = Undefined /\ sanOut = Str(EmptyObjectText)

-----------------------------------------------------------------------------
(* Claims on discoverJsonPrompts *)

\* The sources of the SearchResult returned
ResultSources == Get(synResult, <<"sources">>).a

NonEmptyString(v) == v.t = "str" /\ v.s # <<>>

\* C3 as stated: every SearchResult returned has a present, non-empty
\* jsonPrompt and a present, non-empty exampleJson.
C3_PromptAndExamplePresent ==
    synPc = "returned" =>
        /\ NonEmptyString(Get(synResult, <<"jsonPrompt">>))
        /\ NonEmptyString(Get(synResult, <<"exampleJson">>))

\* C4: the sources of every SearchResult returned hold at least one and at
\* most five entries, whatever grounding chunks the research call returned.
C4_SourcesBetweenOneAndFive ==
    synPc = "returned" => (Len(ResultSources) >= 1 /\ Len(ResultSources) <= MaxSources)

\* C4 witness: a result was returned after a research response with chunks
\* none of which has a usable URI
C4_Witness ==
    /\ synPc = "returned"
    /\ Len(synResearch.chunks) >= 2
    /\ \A i \in 1..Len(synResearch.chunks) : ~UsableUri(ChunkToSource(synResearch.chunks[i]))
    /\ Len(ResultSources) = 1

\* The text of a response is unusable: there is none
Unusable(text) == Falsy(text)

\* C11: discoverJsonPrompts returns only when both calls returned usable
\* text and the sanitized synthesis text parsed as an object; in every other
\* case it has thrown one error with a message and has returned nothing.
C11_UnusableReplyRaisesError ==
    /\ synPc = "returned" =>
          /\ ~Unusable(synResearch.text)
          /\ ~Unusable(synText)
          /\ ParsedSynthesis[synText].ok
          /\ ParsedSynthesis[synText].v.t = "obj"
    /\ synPc = "threw" => (synResult = Undefined /\ synError # <<>>)

\* C19: no Source of a SearchResult returned has the placeholder "#" as its uri.
C19_NoPlaceholderUriReturned ==
    synPc = "returned" =>
        \A i \in 1..Len(ResultSources) : ResultSources[i].uri # <<"#">>

-----------------------------------------------------------------------------
(* Claims on StockCard *)

\* C1 as stated: a refresh fetch issued under an old subject is discarded
\* when it arrives after the subject was changed: the snapshot held never
\* comes from a refresh fetch that named another subject than the current one.
C1_StaleRefreshDiscarded ==
    (pollMounted /\ pollData # Null /\ ~pollData.initial) => pollData.sym = activeSymbol

\* C5 as stated: every snapshot stored has a non-empty history sequence and a
\* numeric currentPrice.
C5_StoredSnapshotComplete ==
    pollData # Null =>
        /\ Get(pollData.value, <<"history">>).t = "arr"
        /\ Len(Get(pollData.value, <<"history">>).a) > 0
        /\ Get(pollData.value, <<"currentPrice">>).t = "num"

\* The reply holds no JSON: no brace span, or one that JSON.parse rejects
NoJsonIn(text) ==
    LET s == IF Falsy(text) THEN <<>> ELSE text.s
    IN  MatchBraces(s) = Undefined \/ ~JsonParse(MatchBraces(s).s).ok

\* C10 as stated: when the response of an initial fetch carries text that is
\* not valid JSON, the error surfaced has the hint of the malformed category.
C10_MalformedHintForNonJson ==
    (pollMounted /\ pollLast # Null /\ pollLast.initial /\ pollLast.response # Thrown
        /\ NoJsonIn(pollLast.response.text))
        => (pollError # Null /\ pollError.hint = MalformedHint)

\* The fetch the last step handled ended in the catch block
EndedInCatch(last) ==
    \/ last.response = Thrown
    \/ \A out \in PollOutcomes[last.response] : ~out.ok

\* The step handled the end of a refresh fetch that failed
RefreshFailureStep ==
    /\ pollInFlight' # pollInFlight
    /\ pollLast' # Null
    /\ ~pollLast'.initial
    /\ EndedInCatch(pollLast')

\* C14: the step that handles a failed refresh fetch leaves the error and
\* the snapshot as they were and leaves the armed timer alone; while the
\* component is mounted a timer is armed for the current subject, so the
\* next tick issues another refresh fetch.
C14_RefreshFailureIsSilent ==
    /\ [](pollMounted => \E tm \in pollTimers : tm.sym = activeSymbol)
    /\ [][RefreshFailureStep =>
            /\ pollError' = pollError
            /\ pollData' = pollData
            /\ pollTimers' = pollTimers]_vars

\* A refresh fetch has just failed while a snapshot is held and the timer is armed
C14_Witness ==
    /\ pollMounted
    /\ pollLast # Null
    /\ ~pollLast.initial
    /\ pollLast.response = Thrown
    /\ pollData # Null
    /\ pollError = Null
    /\ pollTimers # {}

\* C15: once the component is unmounted no timer is armed, it stays
\* unmounted, and no step issues a fetch.
C15_TeardownCancelsTimer ==
    /\ [](~pollMounted => pollTimers = {})
    /\ [][~pollMounted => (~pollMounted' /\ pollIssued' = pollIssued)]_vars

\* Unmounted after refresh fetches were issued, one fetch still outstanding
C15_Witness ==
    /\ ~pollMounted
    /\ pollIssued >= 2
    /\ pollInFlight # EmptyBag
    /\ pollTimers = {}

\* The step changes the subject
SubjectChangeStep == activeSymbol' # activeSymbol

\* C16: the step that changes the subject leaves exactly one timer armed, a
\* new one for the new subject, clears the snapshot, reports loading and
\* issues an initial fetch for the new subject; every timer armed is for
\* the current subject and every fetch a step issues names the subject
\* current after that step.
C16_SubjectChangeRestarts ==
    /\ [](\A tm \in pollTimers : tm.sym = activeSymbol)
    /\ [][SubjectChangeStep =>
            /\ refreshInterval' # refreshInterval
            /\ pollTimers' = { [id |-> refreshInterval', sym |-> activeSymbol'] }
            /\ pollData' = Null
            /\ isLoading'
            /\ pollInFlight' = pollInFlight (+) OneFetch(activeSymbol', TRUE)]_vars
    /\ [][pollIssued' # pollIssued =>
            \E initial \in BOOLEAN :
                pollInFlight' = pollInFlight (+) OneFetch(activeSymbol', initial)]_vars

\* After a subject change made while a snapshot was held, a refresh for the
\* new subject has been issued
C16_Witness ==
    /\ pollMounted
    /\ pollSwitches >= 1
    /\ BagIn(Fetch(activeSymbol, FALSE), pollInFlight)
    /\ BagIn(Fetch(activeSymbol, TRUE), pollInFlight)
    /\ pollData = Null

\* C17: while an initial fetch for the current subject is outstanding the
\* component reports loading and holds no snapshot.
C17_LoadingWhileInitialOutstanding ==
    (pollMounted /\ BagIn(Fetch(activeSymbol, TRUE), pollInFlight))
        => (isLoading /\ pollData = Null)

-----------------------------------------------------------------------------
(* Claims on ChatWidget *)

\* The title a session was seeded with ("undefined": seeded without a context)
SeedTitle(seed) == IF "title" \in DOMAIN seed THEN seed.title ELSE "undefined"

\* C2: a send made under an Artifact is served by a session whose seed was
\* built from that Artifact's title, and while it is in flight the turn list
\* holds, besides the greeting, only turns written by that session. (Sessions
\* change only when the title changes, so this fails only for a send that
\* follows a title change.)
C2_SendAfterTitleChangeSeesFreshSession ==
    \A snd \in chatSends :
        (snd.ctx # Null /\ ~snd.orphan) =>
            /\ SeedTitle(snd.session.seed) = snd.ctx.title
            /\ \A i \in 1..Len(messages) : messages[i].sess \in {0, snd.session.id}

\* The concatenation of a stream's fragments in arrival order
RECURSIVE FragmentsText(_)
FragmentsText(frags) ==
    IF frags = <<>> THEN <<>>
    ELSE (IF Falsy(Head(frags)) THEN <<>> ELSE Head(frags).s) \o FragmentsText(Tail(frags))

\* A turn without its history field
Plain(turn) == [role |-> turn.role, text |-> turn.text]

\* The four turns two completed sends produce
FourTurns(first, second) ==
    << [role |-> "user", text |-> first.user],
       [role |-> "model", text |-> FragmentsText(first.got)],
       [role |-> "user", text |-> second.user],
       [role |-> "model", text |-> FragmentsText(second.got)] >>

\* C8 as stated: once two sends have completed without failure, the turn list
\* is exactly the four turns user, assistant, user, assistant, each assistant
\* text being the concatenation of its stream's fragments.
C8_ExactlyFourTurns ==
    (Len(chatDone) >= 2 /\ chatDone[1].ok /\ chatDone[2].ok /\ chatSends = {}
        /\ chatSent = 2)
        => [j \in 1..Len(messages) |-> Plain(messages[j])] = FourTurns(chatDone[1], chatDone[2])

\* C8, amended: two sends made one after the other with no title change in
\* between, each stream completing without failure, append exactly four
\* turns after the turns that were present before the first send, in the
\* order user, assistant, user, assistant, and each assistant turn's text is
\* the concatenation of its own stream's fragments in arrival order.
C8_TwoSendsAppendFourTurns ==
    \A i \in 1..(Len(chatDone) - 1) :
        LET first == chatDone[i]
            second == chatDone[i + 1]
            n == Len(first.base)
        IN  (first.ok /\ second.ok) =>
                /\ Len(messages) >= n + 4
                /\ SubSeq(messages, 1, n) = first.base
                /\ Len(second.base) = n + 2
                /\ [j \in 1..4 |-> Plain(messages[n + j])] = FourTurns(first, second)

\* Two sends have completed without failure, one of them from several fragments
C8_Witness ==
    /\ Len(chatDone) >= 2
    /\ chatDone[1].ok /\ chatDone[2].ok
    /\ chatDone[1].got = <<Str(<<"b">>), Undefined, Str(<<"a">>)>>
    /\ chatDone[2].got = <<Str(<<"a">>), Str(<<"b">>)>>
    /\ messages[Len(messages)].text = <<"a", "b">>

\* The fixed text of the turn a failed send leaves
FixedFailureText == <<"Logic", " ", "trace", " ", "failed.">>

\* Where a failed send's terminal turn stands: after its user turn, and
\* after its model turn when the stream had opened
FailureTurnAt(done) == Len(done.base) + (IF done.opened THEN 3 ELSE 2)

\* C13: a send whose stream failed, before the first fragment or after some,
\* has ended without an error (isTyping is off again) and has appended one
\* assistant turn carrying the fixed failure text after its user turn and
\* after the text streamed so far; that turn is the last one until another
\* send is made.
C13_FailedStreamAppendsMarker ==
    \A i \in 1..Len(chatDone) :
        LET done == chatDone[i]
            at == FailureTurnAt(done)
        IN  ~done.ok =>
                /\ Len(messages) >= at
                /\ Plain(messages[at]) = [role |-> "model", text |-> FixedFailureText]
                /\ done.opened =>
                      Plain(messages[at - 1]) = [role |-> "model", text |-> FragmentsText(done.got)]
                /\ (i = Len(chatDone) /\ chatSends = {}) => (Len(messages) = at /\ ~isTyping)

\* A stream has failed after two fragments and its failure turn is the last turn
C13_Witness ==
    /\ chatSends = {}
    /\ Len(chatDone) >= 1
    /\ ~chatDone[Len(chatDone)].ok
    /\ chatDone[Len(chatDone)].opened
    /\ Len(chatDone[Len(chatDone)].got) = 2
    /\ messages[Len(messages)].text = FixedFailureText

\* C20: every send in flight is served by a session whose seed was built
\* from the title and the prompt of the context that was current when the
\* send was made (the marker for no context when there was none).
C20_SendServedBySessionOfCurrentArtifact ==
    \A snd \in chatSends : snd.session.seed = SeedOf(snd.ctx)

-----------------------------------------------------------------------------
(* Claims on ResultView *)

\* C9: a validation started after a derivation has completed successfully
\* sends the schema that derivation returned (trimmed), not the Artifact's
\* original schema.
C9_ValidateSendsDerivedSchema ==
    \A call \in rvValidations :
        call.derived # Null => call.schema = TrimmedText(call.derived.text)

\* The report a validation that ended that way leaves on display
ExpectedReport(ended) ==
    IF ended.t = "failed" THEN Str(AuditFailed)
    ELSE IF ended.text.t = "str" /\ ended.text.s # <<>> THEN ended.text
    ELSE Str(ValidationComplete)

-----------------------------------------------------------------------------
(* Claims on the operations of all components *)

\* The step handled the rejection of discoverJsonPrompts in handleSearch
SearchFailureStep ==
    /\ Cardinality(appSearches') < Cardinality(appSearches)
    /\ appLast'.t = "failed"

\* The step handled the failure of a validation call
ValidateFailureStep ==
    /\ Cardinality(rvValidations') < Cardinality(rvValidations)
    /\ rvLastValidation'.t = "failed"

\* The step handled the failure of a derivation call
DeriveFailureStep ==
    /\ Cardinality(rvDerivations') < Cardinality(rvDerivations)
    /\ rvLastDerivation'.t = "failed"

\* The step handled the failure of a send's stream
SendFailureStep ==
    /\ Cardinality(chatSends') < Cardinality(chatSends)
    /\ Len(messages') = Len(messages) + 1
    /\ messages'[Len(messages')].text = FixedFailureText

\* The step handled the failure of an initial fetch of a mounted StockCard
InitialFetchFailureStep ==
    /\ pollMounted
    /\ pollInFlight' # pollInFlight
    /\ pollLast'.t = "fetch"
    /\ pollLast'.initial
    /\ EndedInCatch(pollLast')

\* C18: the step that handles the failure of a search, a validation, a
\* derivation, a chat send or an initial fetch leaves that operation's busy
\* flag off and the conditions under which the operation is started again
\* satisfied (the retry button is shown, the audit and derive buttons are
\* enabled, the chat form accepts a send).
C18_FailureLeavesReadyToRetry ==
    [][ /\ SearchFailureStep =>
            (~appIsSearching' /\ appError' # Null /\ appQuery' # <<>>)
        /\ ValidateFailureStep =>
            /\ ~isValidatingSchema'
            /\ ~Falsy(SchemaToUse(derivedSchema', rvResult'))
            /\ ~Falsy(rvResult'.exampleJson)
        /\ DeriveFailureStep =>
            (~isDerivingSchema' /\ ~Falsy(rvResult'.exampleJson))
        /\ SendFailureStep => ~isTyping'
        /\ InitialFetchFailureStep =>
            (~isLoading' /\ (pollError' # Null \/ pollData' = Null)) ]_vars

-----------------------------------------------------------------------------
(* Claims on ResultView: derivation *)

\* The schema a validation started now would send
ActiveSchema == SchemaToUse(derivedSchema, rvResult)

\* C21: the step that handles a failed derivation reports the derivation
\* error and leaves the active schema as it was; after a derivation that
\* returned, the active schema is its trimmed text.
C21_DerivationSetsActiveSchema ==
    /\ [](rvLastDerivation.t = "returned" =>
            ActiveSchema = TrimmedText(rvLastDerivation.text))
    /\ [][DeriveFailureStep =>
            /\ schemaError' = Str(ArchitecturalFault)
            /\ ActiveSchema' = ActiveSchema]_vars

-----------------------------------------------------------------------------
(* Claims on ChatWidget: the turn a stream writes *)

\* A fragment of the stream of send snd is handled in this step
FragmentStep(snd) ==
    /\ snd.phase = "streaming"
    /\ \E after \in chatSends' :
        /\ after.id = snd.id
        /\ Len(after.got) = Len(snd.got) + 1

\* C22: a step that handles a stream fragment changes the text of no turn
\* but the assistant turn that was appended for the fragment's own send
\* (snd.turn is its place in the list, 0 once the list was replaced).
C22_FragmentChangesOwnTurnOnly ==
    [][\A snd \in chatSends :
          FragmentStep(snd) =>
              /\ Len(messages') = Len(messages)
              /\ \A i \in 1..Len(messages) :
                    i # snd.turn => messages'[i].text = messages[i].text]_vars

-----------------------------------------------------------------------------
(* Claims on the App: overlapping searches *)

\* The Artifact on display was stored by the search appLast names
ShowsSearchResult == appLast.t = "returned"

\* C23: the result of an older search never replaces the result of a newer
\* one, and once no search is outstanding the Artifact a search stored is
\* the one of the query submitted last.
C23_LatestQueryWins ==
    /\ [](appSearches = {} /\ ShowsSearchResult => appLast.query = appQuery)
    /\ [][ShowsSearchResult /\ ShowsSearchResult' /\ appLast'.id # appLast.id =>
            appLast'.id > appLast.id]_vars

-----------------------------------------------------------------------------
(* Claims on ChatWidget: the text of a stream in flight *)

\* before is a prefix of after
GrowsByAppending(before, after) ==
    /\ Len(before) <= Len(after)
    /\ \A i \in 1..Len(before) : after[i] = before[i]

\* C24: while a stream is in flight its assistant turn is in the list
\* and its text is the concatenation of the fragments received so far in
\* arrival order, and a fragment only appends to that text.
C24_TurnTextIsFragmentsSoFar ==
    /\ [](\A snd \in chatSends :
            snd.phase = "streaming" /\ snd.got # <<>> =>
                /\ snd.turn \in 1..Len(messages)
                /\ messages[snd.turn].role = "model"
                /\ messages[snd.turn].text = FragmentsText(snd.got))
    /\ [][\A snd \in chatSends :
            FragmentStep(snd) /\ snd.turn # 0 =>
                GrowsByAppending(messages[snd.turn].text, messages'[snd.turn].text)]_vars

-----------------------------------------------------------------------------
(* Claims on StockCard: refreshes and the timer *)

RefreshOutstanding == \E f \in BagToSet(pollInFlight) : ~f.initial
InitialOutstanding == \E f \in BagToSet(pollInFlight) : f.initial

\* A refresh fetch is started in this step
RefreshStartStep ==
    /\ pollIssued' = pollIssued + 1
    /\ \E f \in BagToSet(pollInFlight') :
        ~f.initial /\ CopiesIn(f, pollInFlight') = CopiesIn(f, pollInFlight) + 1

\* C25: while the component is mounted, whenever a refresh fetch is
\* outstanding and no initial fetch is, the poller is marked refreshing and
\* not loading; and starting a refresh leaves the stored snapshot in place.
C25_RefreshingWhileRefreshOutstanding ==
    /\ [](pollMounted /\ RefreshOutstanding /\ ~InitialOutstanding =>
            isRefreshing /\ ~isLoading)
    /\ [][RefreshStartStep => pollData' = pollData]_vars

-----------------------------------------------------------------------------
(* Claims on discoverJsonPrompts: the two calls and the sources *)

\* The text of a response, the empty text when it has none
TextOrNone(text) == IF text.t = "str" THEN text.s ELSE <<>>

ResearchCompleted == synResearch # Undefined

\* C26: an invocation issues at most two remote calls, the research call
\* first; the synthesis call is issued only once the research call has
\* returned, carries the text that call returned, and is never issued after
\* the research call failed; no call is issued after the invocation threw.
C26_SynthesisFollowsResearch ==
    /\ [](synPc # "off" =>
            /\ Len(synCalls) \in 1..2
            /\ synCalls[1] = ResearchCall(synQuery)
            /\ Len(synCalls) = 2 =>
                  /\ ResearchCompleted
                  /\ synCalls[2].stage = "synthesis"
                  /\ synCalls[2].query = synQuery
                  /\ synCalls[2].research = TextOrNone(synResearch.text)
            /\ ~ResearchCompleted => Len(synCalls) = 1)
    /\ [][(synPc = "threw" \/ synPc = "returned") => (synCalls' = synCalls)]_vars

\* A citation record has a usable URI: there is one and it is not "#"
HasUsableUri(chunk) ==
    chunk.uri.t = "str" /\ chunk.uri.s # <<>> /\ chunk.uri.s # HashUri

\* The first n citation records with a usable URI, in their order, as Sources
RECURSIVE FirstUsable(_, _)
FirstUsable(chunks, n) ==
    IF chunks = <<>> \/ n = 0 THEN <<>>
    ELSE IF HasUsableUri(Head(chunks))
         THEN <<ChunkToSource(Head(chunks))>> \o FirstUsable(Tail(chunks), n - 1)
         ELSE FirstUsable(Tail(chunks), n)

\* C27: the sources of a returned result are the first five citation
\* records with a usable URI, in their original order, or the one fallback
\* Source exactly when there is none, whatever the synthesis text holds.
C27_SourcesAreFirstFiveUsable ==
    synPc = "returned" =>
        LET kept == FirstUsable(synResearch.chunks, MaxSources)
        IN  /\ kept # <<>> => ResultSources = kept
            /\ kept = <<>> => ResultSources = <<FallbackSource>>
            /\ (FallbackSource \in { ResultSources[i] : i \in 1..Len(ResultSources) })
                  <=> kept = <<>>

\* A result was returned from a synthesis text with a sources member, after
\* a research response whose first record is unusable and is followed by
\* at least five usable ones
C27_Witness ==
    /\ synPc = "returned"
    /\ Get(ParsedSynthesis[synText].v, <<"sources">>) # Undefined
    /\ Len(synResearch.chunks) > MaxSources
    /\ ~HasUsableUri(synResearch.chunks[1])
    /\ \A i \in 2..Len(synResearch.chunks) : HasUsableUri(synResearch.chunks[i])
    /\ synResearch.chunks[2] # synResearch.chunks[3]
    /\ Len(ResultSources) = MaxSources

-----------------------------------------------------------------------------
(* Claims on StockCard: the armed timer *)

\* C28: at most one interval is armed at any moment, the armed interval is
\* the one refreshInterval names and fetches for the current subject, and
\* every refresh fetch that is started names the current subject.
C28_OneTimerForCurrentSubject ==
    /\ [](/\ Cardinality(pollTimers) <= 1
          /\ \A tm \in pollTimers : tm.id = refreshInterval /\ tm.sym = activeSymbol)
    /\ [][\A f \in BagToSet(pollInFlight') :
            (~f.initial /\ CopiesIn(f, pollInFlight') > CopiesIn(f, pollInFlight)) =>
                (f.sym = activeSymbol /\ pollTimers # {})]_vars

\* After a change of subject the interval armed for the new subject has
\* fired a refresh that is still outstanding
C28_Witness ==
    /\ pollSwitches >= 1
    /\ pollTimers = { [id |-> refreshInterval, sym |-> activeSymbol] }
    /\ refreshInterval >= 2
    /\ CopiesIn(Fetch(activeSymbol, FALSE), pollInFlight) >= 1

-----------------------------------------------------------------------------
(* Claims on ChatWidget: one stream at a time *)

SendIds(sends) == { snd.id : snd \in sends }

\* A user turn is appended in this step
UserTurnAppended ==
    /\ Len(messages') = Len(messages) + 1
    /\ messages'[Len(messages')].role = "user"

\* C29: at most one send is in flight at any moment, and while one is, no
\* step appends a user turn, starts another send or creates a session: a
\* send attempted then changes nothing.
C29_OneStreamAtATime ==
    /\ [](Cardinality(chatSends) <= 1 /\ (chatSends # {} => isTyping))
    /\ [][chatSends # {} =>
            /\ ~UserTurnAppended
            /\ SendIds(chatSends') \subseteq SendIds(chatSends)
            /\ chatSent' = chatSent
            /\ chatCreated' = chatCreated]_vars

\* A stream is in flight with a fragment received, and the user could still
\* attempt another send
C29_Witness ==
    /\ isTyping
    /\ chatSent < MaxSends
    /\ \E snd \in chatSends : snd.phase = "streaming" /\ snd.got # <<>> /\ snd.rest # <<>>

-----------------------------------------------------------------------------
(* Claims on cleanJsonResponse: a text without a brace span *)

\* No fence marker anywhere in the text
NoFenceIn(s) == \A k \in 1..Len(s) : FenceLenAt(s, k) = 0

\* The call has returned for a text that is not empty and has no "{", no
\* "}", or its last "}" not after its first "{"
SanitizedWithoutBraces ==
    /\ sanPc = "done"
    /\ sanText.t = "str" /\ sanText.s # <<>>
    /\ ~HasBraces(sanText.s)

\* C30 as stated: for such a text sanitize returns the input with leading
\* and trailing white space removed and otherwise unchanged.
C30_ReturnsTrimmedInput ==
    SanitizedWithoutBraces => sanOut = Str(Trim(sanText.s))

\* C30 amended: the same for texts that hold no fence marker; for the
\* others the result is no longer than the trimmed input and holds no brace
\* span either.
C30_ReturnsTrimmedInputWhenNoFence ==
    SanitizedWithoutBraces =>
        /\ sanOut.t = "str"
        /\ NoFenceIn(sanText.s) => sanOut = Str(Trim(sanText.s))
        /\ Len(sanOut.s) <= Len(Trim(sanText.s))
        /\ ~HasBraces(sanOut.s)

\* A text with white space at both ends, a stray brace and no fence marker
\* has been sanitized to what is between the white space
C30_Witness ==
    /\ SanitizedWithoutBraces
    /\ NoFenceIn(sanText.s)
    /\ sanText.s = <<" ", "}", "a", "\n">>
    /\ sanOut = Str(<<"}", "a">>)

-----------------------------------------------------------------------------
(* Claims on discoverJsonPrompts: the parse failure *)

MalformedSynthesisOutput == <<"malformed", " ", "synthesis", " ", "output">>

\* The invocation threw because JSON.parse failed on the sanitized text
ThrewOnParse == synPc = "threw" /\ synText # Null

\* C31: when the sanitized synthesis text fails to parse, the error thrown
\* carries the message "malformed synthesis output".
C31_ParseFailureMessage ==
    ThrewOnParse => synError = MalformedSynthesisOutput

-----------------------------------------------------------------------------
(* Claims on ChatWidget: the turn list within one session *)

\* The title effect runs in this step (a reset when it replaces the list)
ResetStep == chatChanges' # chatChanges

\* Turn i keeps its role, and its text too unless it is the last turn, an
\* assistant turn, whose text grows by appending
TurnKept(i) ==
    /\ messages'[i].role = messages[i].role
    /\ \/ messages'[i].text = messages[i].text
       \/ /\ i = Len(messages)
          /\ messages[i].role = "model"
          /\ GrowsByAppending(messages[i].text, messages'[i].text)

\* C32: between two resets every step leaves the turn list an extension of
\* what it was: no turn is removed or reordered, and no text changes apart
\* from the growth of the streaming assistant turn.
C32_TurnListAppendOnly ==
    [][~ResetStep =>
          /\ Len(messages') >= Len(messages)
          /\ \A i \in 1..Len(messages) : TurnKept(i)]_vars

-----------------------------------------------------------------------------
(* Claims on StockCard: the surfaced error *)

\* An initial fetch is started in this step (the mount, a retry or a new subject)
InitialStartStep ==
    \E f \in BagToSet(pollInFlight') :
        f.initial /\ CopiesIn(f, pollInFlight') > CopiesIn(f, pollInFlight)

\* A fetch completes in this step and its snapshot is stored
FetchSuccessStep ==
    /\ pollLast'.t = "fetch"
    /\ pollData' # pollData
    /\ pollData' # Null

\* C33: a surfaced error is removed only by a step in which a fetch
\* succeeds, a retry (an initial fetch) is started or the subject changes;
\* the start of a refresh by the timer leaves it set.
C33_ErrorStaysUntilHandled ==
    [][pollError # Null /\ pollError' = Null =>
          (FetchSuccessStep \/ InitialStartStep \/ activeSymbol' # activeSymbol)]_vars

-----------------------------------------------------------------------------
(* Claims on the App: error and results *)

\* C34: an error message and an Artifact are never both set: error is null
\* whenever results is not null.
C34_ErrorAndResultsExclusive ==
    appResults # Null => appError = Null

-----------------------------------------------------------------------------
(* Claims on ResultView: the report and the active schema *)

\* A report of a validation that returned is on display
ReportShown ==
    /\ validationReport # Null
    /\ rvLastValidation # Null
    /\ rvLastValidation.t = "returned"

\* C35: the validation report on display results from a validation against
\* the schema that is active now.
C35_ReportIsForActiveSchema ==
    ReportShown => rvLastValidation.schema = ActiveSchema

-----------------------------------------------------------------------------
(* Claims on the App: the search history *)

NoDuplicates(q) == \A i, j \in 1..Len(q) : q[i] = q[j] => i = j

\* A search resolves in this step
SearchSuccessStep ==
    /\ Cardinality(appSearches') < Cardinality(appSearches)
    /\ appLast'.t = "returned"

\* q without its entries equal to x
Without(q, x) == SelectSeq(q, LAMBDA h : h # x)

\* C36: the history never holds a query twice nor more than ten entries; a
\* search that succeeds puts its query first and keeps the others in their
\* order, the oldest one dropped beyond ten; no other step changes the
\* history but the one that empties it, so a failed search leaves it alone.
C36_HistoryRecentFirstNoDuplicates ==
    /\ [](NoDuplicates(searchHistory) /\ Len(searchHistory) <= HistoryLimit)
    /\ [][SearchSuccessStep =>
            /\ searchHistory' # <<>>
            /\ searchHistory'[1] = appLast'.query
            /\ \A i \in 2..Len(searchHistory') :
                  searchHistory'[i] = Without(searchHistory, appLast'.query)[i - 1]
            /\ Len(searchHistory') >= Len(searchHistory)]_vars
    /\ [][searchHistory' # searchHistory => (SearchSuccessStep \/ searchHistory' = <<>>)]_vars

\* A search for a query the full history did not hold has succeeded: it is
\* first, the list still holds ten entries and the oldest one is gone
C36_Witness ==
    /\ appLast.t = "returned"
    /\ searchHistory # <<>>
    /\ searchHistory[1] = <<"auth">>
    /\ Len(searchHistory) = HistoryLimit
    /\ searchHistory[HistoryLimit] = <<"q9">>

-----------------------------------------------------------------------------
(* Claims on cleanJsonResponse: applying it twice *)

\* C37: sanitize is idempotent: applied to its own result it returns that
\* result.
C37_SanitizeIdempotent ==
    sanPc = "done" => cleanJsonResponse(sanOut) = sanOut

-----------------------------------------------------------------------------
(* Claims on the App: the favorites *)

\* handleToggleSave has run in this step
ToggleStep == appLast'.t = "toggled" /\ favorites' # favorites

\* C38: no two favorites have the same title; a toggle adds the Artifact's
\* title to the favorite titles when it is not among them and takes it out
\* when it is; and a toggle that follows a toggle of the same Artifact
\* restores the titles there were before the first of the two.
C38_FavoriteTitlesUniqueToggleTwice ==
    /\ [](\A i, j \in 1..Len(favorites) :
            favorites[i].title = favorites[j].title => i = j)
    /\ [][ToggleStep =>
            /\ FavoriteTitles(favorites') =
                  IF appLast'.title \in FavoriteTitles(favorites)
                  THEN FavoriteTitles(favorites) \ {appLast'.title}
                  ELSE FavoriteTitles(favorites) \cup {appLast'.title}
            /\ (appLast.t = "toggled" /\ appLast.title = appLast'.title) =>
                  FavoriteTitles(favorites') = appLast.before]_vars

\* An Artifact has been saved, taken out and saved again: its title is
\* the one favorite title
C38_Witness ==
    /\ appLast.t = "toggled"
    /\ appSaved >= 2
    /\ appLast.title \in FavoriteTitles(favorites)
    /\ appLast.before = {}
    /\ Len(favorites) = 1

=============================================================================
